---- MODULE Spec2Model ----
(***************************************************************************)
(* Model of the request-statistics recorder of tkliner/stats (stats.go).   *)
(*                                                                         *)
(* A Stats value holds two maps from status-code strings to counts         *)
(* (ResponseCounts for the current interval, TotalResponseCounts for the   *)
(* life of the process), an accumulated response time, and an RWMutex.     *)
(* Request goroutines call Begin/End (through Handler) or EndWithStatus,   *)
(* any goroutine may call Data, and the goroutine started by New resets    *)
(* ResponseCounts once per second.                                         *)
(*                                                                         *)
(* Every statement that touches shared state is a step of its own, so the  *)
(* locking discipline is something the model checks, not something it      *)
(* assumes.  Time is an integer count of coarse ticks since the zero       *)
(* time.Time; time.Duration saturates at +/- MaxDuration as Time.Sub does. *)
(***************************************************************************)
EXTENDS Integers, Sequences, FiniteSets, TLC

(* ------------------------------ bounds -------------------------------- *)

\* Request goroutines of the serving framework.
NumWorkers == 2

\* End/EndWithStatus calls made in one behaviour.
MaxRequests == 3

\* The same, when one goroutine makes all the calls one after the other.
SeqRequests == 4

\* The same, in the behaviours whose progress is checked.
LiveRequests == 2

\* The same, when callers keep and change the values Data returns.
KeepRequests == 2

\* Ticks the clock advances after construction.
MaxTicks == 1

(* --------------------------- program constants ------------------------ *)

\* ctx.SetStatusCode(200) in Begin.
StatusOK == 200

\* time.Sleep(time.Second * 1) in the goroutine of New, in ticks.
SleepInterval == 1

\* The largest time.Duration, in ticks: Time.Sub saturates there.  It is
\* longer than any run of the model and shorter than the distance from the
\* zero Time to the present (292 years against two thousand).
MaxDuration == MaxTicks + 1
MinDuration == - MaxDuration - 1

\* time.Time{}: the zero Time.
ZeroTime == 0

\* The wall clock when New runs.
ConstructionTime == MaxDuration + 2

ClockCap == ConstructionTime + MaxTicks

\* os.Getpid().
Pids == {4242}

Workers == 1 .. NumWorkers

\* Status codes a downstream handler sets, and those a direct caller of
\* EndWithStatus passes.
Statuses == {200, 404, 500}
CallerStatuses == {500}

\* The goroutine started by New.
Background == NumWorkers + 1

\* Values of locals that are not in scope.
NoStatus == 0 - 1
NoTime == ZeroTime - 1
NoCtx == [set |-> FALSE, status |-> NoStatus]

(* ------------------------------ Go values ----------------------------- *)

\* map[string]int{}
EmptyMap == [k \in {} |-> 0]

\* m[k] of a Go map: the zero value when k is absent.
Get(m, k) == IF k \in DOMAIN m THEN m[k] ELSE 0

\* m[k] = v
Put(m, k, v) == [x \in DOMAIN m \cup {k} |-> IF x = k THEN v ELSE m[x]]

Digit(d) ==
  CASE d = 0 -> "0" [] d = 1 -> "1" [] d = 2 -> "2" [] d = 3 -> "3"
    [] d = 4 -> "4" [] d = 5 -> "5" [] d = 6 -> "6" [] d = 7 -> "7"
    [] d = 8 -> "8" [] d = 9 -> "9"

RECURSIVE Decimal(_)
Decimal(n) == IF n < 10 THEN Digit(n) ELSE Decimal(n \div 10) \o Digit(n % 10)

\* fmt.Sprintf("%d", status)
Sprintf(status) == IF status < 0 THEN "-" \o Decimal(- status) ELSE Decimal(status)

\* t.Sub(u): the difference, saturated to the range of time.Duration.
Sub(t, u) ==
  LET d == t - u
  IN  IF d > MaxDuration THEN MaxDuration
      ELSE IF d < MinDuration THEN MinDuration
      ELSE d

\* t.Add(d)
Add(t, d) == t + d

\* A division that rounds toward minus infinity.
FloorDiv(a, b) == a \div b

\* int64(a) / int64(b) of Go: the quotient truncated toward zero.
GoDiv(a, b) == IF a >= 0 THEN a \div b ELSE - ((- a) \div b)

\* The loop `for code, current := range m { copy[code] = current; n += current }`.
RECURSIVE SumOver(_, _)
SumOver(m, keys) ==
  IF keys = {} THEN 0
  ELSE LET k == CHOOSE x \in keys : TRUE
       IN  m[k] + SumOver(m, keys \ {k})

RangeCopy(m) == [code \in DOMAIN m |-> m[code]]

\* The loop that counts the entries instead of adding them up.
RangeLen(m) == Cardinality(DOMAIN m)

RangeSum(m) == SumOver(m, DOMAIN m)

\* Lines 128-134 of Data: the average over the total count.
AverageResponseTime(totalResponseTime, totalCount) ==
  IF totalCount > 0 THEN GoDiv(totalResponseTime, totalCount) ELSE 0

(* ------------------------------- state -------------------------------- *)

VARIABLES
  mu,                   \* sync.RWMutex: [writers, readers] hold it, [pending] waits
  Uptime,               \* Stats.Uptime
  Pid,                  \* Stats.Pid
  ResponseCounts,       \* Stats.ResponseCounts
  TotalResponseCounts,  \* Stats.TotalResponseCounts
  TotalResponseTime,    \* Stats.TotalResponseTime, ticks since ZeroTime
  clock,                \* what time.Now() returns
  pc,                   \* position of each request goroutine
  ctx,                  \* the RequestCtx a goroutine serves: its response status
  start,                \* `start` / `beginning`
  status,               \* `status` of EndWithStatus
  statusCode,           \* `statusCode` of EndWithStatus
  responseTime,         \* `responseTime` of EndWithStatus
  tmp,                  \* the value read by the statement being executed
  d,                    \* the locals of Data
  bgpc,                 \* position of the goroutine started by New
  wakeAt,               \* when its time.Sleep returns
  ended,                \* history: per status, the calls of End that returned
  sinceReset,           \* history: those that returned after the last reset
  endedTime,            \* history: the sum of their response times
  resetSeen,            \* history: a reset has returned
  totalAtReset,         \* history: sum of the total counts when the last reset began
  atLock,               \* history: the counters when the lock was taken
  view,                 \* history: the history at the RLock of a Data call
  held                  \* the Data value a caller kept, and whose its maps are

shared == <<Uptime, Pid, ResponseCounts, TotalResponseCounts, TotalResponseTime>>
request == <<ctx, start, status, statusCode, responseTime, tmp>>
background == <<bgpc, wakeAt>>
history == <<ended, sinceReset, endedTime, resetSeen, totalAtReset>>
vars == <<mu, shared, clock, pc, request, d, background, history, atLock, view, held>>

NoLocals ==
  [now |-> NoTime, uptime |-> 0, responseCounts |-> EmptyMap,
   totalResponseCounts |-> EmptyMap, count |-> 0, totalCount |-> 0,
   totalResponseTime |-> 0, averageResponseTime |-> 0]
NoView == [valid |-> FALSE]
NoCounters == [valid |-> FALSE]
NoData == [valid |-> FALSE]

Counters ==
  [valid |-> TRUE, rc |-> ResponseCounts, trc |-> TotalResponseCounts,
   trt |-> TotalResponseTime]

History ==
  [valid |-> TRUE, ended |-> ended, sinceReset |-> sinceReset,
   endedTime |-> endedTime, resetSeen |-> resetSeen,
   totalAtReset |-> totalAtReset]

ZeroCount == [s \in Statuses |-> 0]

\* The positions inside EndWithStatus, and those inside its critical section.
EwsCritical == {"ews_rc_r", "ews_rc_w", "ews_trc_r", "ews_trc_w", "ews_trt_r",
                "ews_trt_w", "ews_unlock"}
EwsPcs == {"ews_lock"} \cup EwsCritical

\* The positions of Data between RLock and RUnlock.
DataCritical == {"d_copy", "d_runlock"}

\* Requests being served or ended, and the number of those that have ended.
InFlight == {p \in Workers : ctx[p].set \/ pc[p] \in EwsPcs}
Ended == SumOver(ended, Statuses)
Requests == Ended + Cardinality(InFlight)

(* New: the Stats value and the goroutine at its first statement. *)
Init ==
  /\ mu = [writers |-> {}, readers |-> {}, pending |-> {}]
  /\ Uptime = ConstructionTime
  /\ Pid \in Pids
  /\ ResponseCounts = EmptyMap
  /\ TotalResponseCounts = EmptyMap
  /\ TotalResponseTime = ZeroTime
  /\ clock = ConstructionTime
  /\ pc = [p \in Workers |-> "idle"]
  /\ ctx = [p \in Workers |-> NoCtx]
  /\ start = [p \in Workers |-> NoTime]
  /\ status = [p \in Workers |-> NoStatus]
  /\ statusCode = [p \in Workers |-> ""]
  /\ responseTime = [p \in Workers |-> 0]
  /\ tmp = [p \in Workers |-> 0]
  /\ d = [p \in Workers |-> NoLocals]
  /\ bgpc = "reset_lock"
  /\ wakeAt = ConstructionTime
  /\ ended = ZeroCount
  /\ sinceReset = ZeroCount
  /\ endedTime = 0
  /\ resetSeen = FALSE
  /\ totalAtReset = 0
  /\ atLock = [p \in Workers \cup {Background} |-> NoCounters]
  /\ view = [p \in Workers |-> NoView]
  /\ held = NoData

(* ------------------------------ the lock ------------------------------ *)

\* Lock() that excludes nobody, as if the mutex were not there.
CanLockAlways == TRUE

\* mu.Lock() returns: no writer and no reader holds the lock.
CanLock == mu.writers = {} /\ mu.readers = {}

\* RLock() that does not wait for the writer.
CanRLockAlways == TRUE

\* mu.RLock() returns: no writer holds the lock and none has announced
\* itself (RWMutex makes new readers wait behind a writer that waits).
CanRLock == mu.writers = {} /\ mu.pending = {}

\* mu.Lock() has taken the writers' mutex of the RWMutex and announced
\* itself while readers hold the lock: it waits for them to leave.
CanAnnounce == mu.writers = {} /\ mu.pending = {} /\ mu.readers # {}

(* --------------------- Handler, Begin, End (50-63, 83-85) ------------- *)

\* Begin without ctx.SetStatusCode(200).
BeginNoDefault(p) ==
  /\ pc[p] = "idle"
  /\ start' = [start EXCEPT ![p] = clock]
  /\ ctx' = [ctx EXCEPT ![p] = [set |-> TRUE, status |-> NoStatus]]
  /\ pc' = [pc EXCEPT ![p] = "h"]
  /\ UNCHANGED <<mu, shared, clock, status, statusCode, responseTime, tmp, d, 
                 background, history, atLock, view, held>>

\* Begin that counts the request when it begins.
BeginCounts(p) ==
  /\ pc[p] = "idle"
  /\ start' = [start EXCEPT ![p] = clock]
  /\ ctx' = [ctx EXCEPT ![p] = [set |-> TRUE, status |-> StatusOK]]
  /\ ResponseCounts' = Put(ResponseCounts, "200", Get(ResponseCounts, "200") + 1)
  /\ TotalResponseCounts' = Put(TotalResponseCounts, "200", Get(TotalResponseCounts, "200") + 1)
  /\ pc' = [pc EXCEPT ![p] = "h"]
  /\ UNCHANGED <<mu, Uptime, Pid, TotalResponseTime, clock, status, statusCode,
                 responseTime, tmp, d, background, history, atLock, view, held>>

\* Handler calls Begin: start := time.Now(); ctx.SetStatusCode(200).
Begin(p) ==
  /\ pc[p] = "idle"
  /\ start' = [start EXCEPT ![p] = clock]
  /\ ctx' = [ctx EXCEPT ![p] = [set |-> TRUE, status |-> StatusOK]]
  /\ pc' = [pc EXCEPT ![p] = "h"]
  /\ UNCHANGED <<mu, shared, clock, status, statusCode, responseTime, tmp, d, 
                 background, history, atLock, view, held>>

\* h(recorder): the downstream handler sets a status, or none, and returns.
DownstreamHandler(p) ==
  /\ pc[p] = "h"
  /\ \/ \E s \in Statuses : ctx' = [ctx EXCEPT ![p].status = s]
     \/ UNCHANGED ctx
  /\ pc' = [pc EXCEPT ![p] = "end"]
  /\ UNCHANGED <<mu, shared, clock, start, status, statusCode, responseTime, tmp, d,
                 background, history, atLock, view, held>>

\* End that passes the default status, not the status of the response.
EndDefaultStatus(p) ==
  /\ pc[p] = "end"
  /\ status' = [status EXCEPT ![p] = StatusOK]
  /\ responseTime' = [responseTime EXCEPT ![p] = Sub(clock, start[p])]
  /\ pc' = [pc EXCEPT ![p] = "ews_lock"]
  /\ UNCHANGED <<mu, shared, clock, ctx, start, statusCode, tmp, d, background,
                 history, atLock, view, held>>

\* End: EndWithStatus(start, ctx.Response.StatusCode()), up to its computing
\* end := time.Now(); responseTime := end.Sub(start).  The RequestCtx is
\* the request's until Handler returns.
End(p) ==
  /\ pc[p] = "end"
  /\ status' = [status EXCEPT ![p] = ctx[p].status]
  /\ responseTime' = [responseTime EXCEPT ![p] = Sub(clock, start[p])]
  /\ pc' = [pc EXCEPT ![p] = "ews_lock"]
  /\ UNCHANGED <<mu, shared, clock, ctx, start, statusCode, tmp, d, background,
                 history, atLock, view, held>>

(* -------------------------- EndWithStatus (66-80) --------------------- *)

\* The start times a caller passes who did not call Begin: the zero Time,
\* the present, and a time yet to come.
CallerStarts == {ZeroTime, clock, clock + 1}

\* A direct call EndWithStatus(st, s), up to responseTime := end.Sub(start).
EndWithStatus(p) ==
  /\ pc[p] = "idle"
  /\ \E st \in CallerStarts, s \in CallerStatuses :
       /\ start' = [start EXCEPT ![p] = st]
       /\ status' = [status EXCEPT ![p] = s]
       /\ responseTime' = [responseTime EXCEPT ![p] = Sub(clock, st)]
  /\ pc' = [pc EXCEPT ![p] = "ews_lock"]
  /\ UNCHANGED <<mu, shared, clock, ctx, statusCode, tmp, d, background,
                 history, atLock, view, held>>

\* mw.mu.Lock() finds readers inside and waits for them.
LockPending(p) ==
  /\ pc[p] = "ews_lock"
  /\ CanAnnounce
  /\ mu' = [mu EXCEPT !.pending = {p}]
  /\ UNCHANGED <<shared, clock, pc, request, d, background, history, atLock, view, held>>

\* mw.mu.Lock() returns; statusCode := fmt.Sprintf("%d", status)
Lock(p) ==
  /\ pc[p] = "ews_lock"
  /\ CanLock
  /\ mu.pending \subseteq {p}
  /\ mu' = [mu EXCEPT !.writers = @ \cup {p}, !.pending = {}]
  /\ statusCode' = [statusCode EXCEPT ![p] = Sprintf(status[p])]
  /\ start' = [start EXCEPT ![p] = NoTime]
  /\ atLock' = [atLock EXCEPT ![p] = Counters]
  /\ pc' = [pc EXCEPT ![p] = "ews_rc_r"]
  /\ UNCHANGED <<shared, clock, ctx, status, responseTime, tmp, d, 
                 background, history, view, held>>

\* mw.ResponseCounts[statusCode]++ : the read
ReadResponseCounts(p) ==
  /\ pc[p] = "ews_rc_r"
  /\ tmp' = [tmp EXCEPT ![p] = Get(ResponseCounts, statusCode[p])]
  /\ pc' = [pc EXCEPT ![p] = "ews_rc_w"]
  /\ UNCHANGED <<mu, shared, clock, ctx, start, status, statusCode, responseTime, d,
                 background, history, atLock, view, held>>

\* `= 1` written for `++`.
WriteResponseCountsOne(p) ==
  /\ pc[p] = "ews_rc_w"
  /\ ResponseCounts' = Put(ResponseCounts, statusCode[p], 1)
  /\ pc' = [pc EXCEPT ![p] = "ews_trc_r"]
  /\ UNCHANGED <<mu, Uptime, Pid, TotalResponseCounts, TotalResponseTime, clock,
                 request, d, background, history, atLock, view, held>>

\* mw.ResponseCounts[statusCode]++ : the write
WriteResponseCounts(p) ==
  /\ pc[p] = "ews_rc_w"
  /\ ResponseCounts' = Put(ResponseCounts, statusCode[p], tmp[p] + 1)
  /\ pc' = [pc EXCEPT ![p] = "ews_trc_r"]
  /\ UNCHANGED <<mu, Uptime, Pid, TotalResponseCounts, TotalResponseTime, clock,
                 request, d, background, history, atLock, view, held>>

\* mw.TotalResponseCounts[statusCode]++ : the read
ReadTotalResponseCounts(p) ==
  /\ pc[p] = "ews_trc_r"
  /\ tmp' = [tmp EXCEPT ![p] = Get(TotalResponseCounts, statusCode[p])]
  /\ pc' = [pc EXCEPT ![p] = "ews_trc_w"]
  /\ UNCHANGED <<mu, shared, clock, ctx, start, status, statusCode, responseTime, d,
                 background, history, atLock, view, held>>

\* Line 78 left out: the total is never incremented.
WriteTotalResponseCountsMissing(p) ==
  /\ pc[p] = "ews_trc_w"
  /\ pc' = [pc EXCEPT ![p] = "ews_trt_r"]
  /\ UNCHANGED <<mu, shared, clock, request, d, background, history, atLock, view, held>>

\* mw.TotalResponseCounts[statusCode]++ : the write
WriteTotalResponseCounts(p) ==
  /\ pc[p] = "ews_trc_w"
  /\ TotalResponseCounts' = Put(TotalResponseCounts, statusCode[p], tmp[p] + 1)
  /\ pc' = [pc EXCEPT ![p] = "ews_trt_r"]
  /\ UNCHANGED <<mu, Uptime, Pid, ResponseCounts, TotalResponseTime, clock, request,
                 d, background, history, atLock, view, held>>

\* mw.TotalResponseTime = mw.TotalResponseTime.Add(responseTime) : the read
ReadTotalResponseTime(p) ==
  /\ pc[p] = "ews_trt_r"
  /\ tmp' = [tmp EXCEPT ![p] = TotalResponseTime]
  /\ pc' = [pc EXCEPT ![p] = "ews_trt_w"]
  /\ UNCHANGED <<mu, shared, clock, ctx, start, status, statusCode, responseTime, d,
                 background, history, atLock, view, held>>

\* `time.Time{}.Add(responseTime)`: the response time assigned, not added.
WriteTotalResponseTimeOnly(p) ==
  /\ pc[p] = "ews_trt_w"
  /\ TotalResponseTime' = Add(ZeroTime, responseTime[p])
  /\ pc' = [pc EXCEPT ![p] = "ews_unlock"]
  /\ UNCHANGED <<mu, Uptime, Pid, ResponseCounts, TotalResponseCounts, clock, request,
                 d, background, history, atLock, view, held>>

\* mw.TotalResponseTime = mw.TotalResponseTime.Add(responseTime) : the write
WriteTotalResponseTime(p) ==
  /\ pc[p] = "ews_trt_w"
  /\ TotalResponseTime' = Add(tmp[p], responseTime[p])
  /\ pc' = [pc EXCEPT ![p] = "ews_unlock"]
  /\ UNCHANGED <<mu, Uptime, Pid, ResponseCounts, TotalResponseCounts, clock, request,
                 d, background, history, atLock, view, held>>

\* The return without the deferred mw.mu.Unlock().
ReturnLocked(p) ==
  /\ pc[p] = "ews_unlock"
  /\ ended' = [ended EXCEPT ![status[p]] = @ + 1]
  /\ sinceReset' = [sinceReset EXCEPT ![status[p]] = @ + 1]
  /\ endedTime' = endedTime + responseTime[p]
  /\ status' = [status EXCEPT ![p] = NoStatus]
  /\ statusCode' = [statusCode EXCEPT ![p] = ""]
  /\ responseTime' = [responseTime EXCEPT ![p] = 0]
  /\ tmp' = [tmp EXCEPT ![p] = 0]
  /\ ctx' = [ctx EXCEPT ![p] = NoCtx]
  /\ atLock' = [atLock EXCEPT ![p] = NoCounters]
  /\ pc' = [pc EXCEPT ![p] = "idle"]
  /\ UNCHANGED <<mu, shared, clock, start, d, background, resetSeen,
                 totalAtReset, view, held>>

\* The deferred mw.mu.Unlock(), and the return to the caller, and of
\* Handler to the framework.
Unlock(p) ==
  /\ pc[p] = "ews_unlock"
  /\ mu' = [mu EXCEPT !.writers = @ \ {p}]
  /\ ended' = [ended EXCEPT ![status[p]] = @ + 1]
  /\ sinceReset' = [sinceReset EXCEPT ![status[p]] = @ + 1]
  /\ endedTime' = endedTime + responseTime[p]
  /\ status' = [status EXCEPT ![p] = NoStatus]
  /\ statusCode' = [statusCode EXCEPT ![p] = ""]
  /\ responseTime' = [responseTime EXCEPT ![p] = 0]
  /\ tmp' = [tmp EXCEPT ![p] = 0]
  /\ ctx' = [ctx EXCEPT ![p] = NoCtx]
  /\ atLock' = [atLock EXCEPT ![p] = NoCounters]
  /\ pc' = [pc EXCEPT ![p] = "idle"]
  /\ UNCHANGED <<shared, clock, start, d, background, resetSeen,
                 totalAtReset, view, held>>

(* ------------------------------ Data (105-155) ------------------------ *)

\* A goroutine that is idle, or inside a downstream handler, calls Data and
\* finds that mw.mu.RLock() has to wait.
DataCall(p) ==
  /\ pc[p] \in {"idle", "h"}
  /\ ~ CanRLock
  /\ pc' = [pc EXCEPT ![p] = "d_rlock"]
  /\ UNCHANGED <<mu, shared, clock, request, d, background, history, atLock, view, held>>

\* A goroutine that is idle, or inside a downstream handler (the /stats
\* endpoint of the README), calls Data, or has called it and waited:
\* mw.mu.RLock() returns; the two make(); now := time.Now();
\* uptime := now.Sub(mw.Uptime)
RLock(p) ==
  /\ pc[p] \in {"idle", "h", "d_rlock"}
  /\ CanRLock
  /\ mu' = [mu EXCEPT !.readers = @ \cup {p}]
  /\ d' = [d EXCEPT ![p] = [NoLocals EXCEPT !.now = clock, !.uptime = Sub(clock, Uptime)]]
  /\ view' = [view EXCEPT ![p] = History]
  /\ pc' = [pc EXCEPT ![p] = "d_copy"]
  /\ UNCHANGED <<shared, clock, request, background, history, atLock, held>>

\* The two range loops, totalResponseTime := mw.TotalResponseTime.Sub(time.Time{})
\* and the average.
Copy(p) ==
  /\ pc[p] = "d_copy"
  /\ LET total == Sub(TotalResponseTime, ZeroTime)
         totalCount == RangeSum(TotalResponseCounts)
     IN  d' = [d EXCEPT ![p].responseCounts = RangeCopy(ResponseCounts),
                        ![p].count = RangeSum(ResponseCounts),
                        ![p].totalResponseCounts = RangeCopy(TotalResponseCounts),
                        ![p].totalCount = totalCount,
                        ![p].totalResponseTime = total,
                        ![p].averageResponseTime = AverageResponseTime(total, totalCount)]
  /\ pc' = [pc EXCEPT ![p] = "d_runlock"]
  /\ UNCHANGED <<mu, shared, clock, request, background, history, atLock, view, held>>

\* mw.mu.RUnlock()
RUnlock(p) ==
  /\ pc[p] = "d_runlock"
  /\ mu' = [mu EXCEPT !.readers = @ \ {p}]
  /\ pc' = [pc EXCEPT ![p] = "d_build"]
  /\ UNCHANGED <<shared, clock, request, d, background, history, atLock, view, held>>

\* r := &Data{...}: the value Data is about to return.  The two renderings
\* of a duration (String and Seconds) are kept as the time.Duration they
\* render, and those of `now` (String and Unix) as the Time.
Snapshot(p) ==
  [Pid |-> Pid,
   UpTime |-> d[p].uptime,
   Time |-> d[p].now,
   StatusCodeCount |-> d[p].responseCounts,
   TotalStatusCodeCount |-> d[p].totalResponseCounts,
   Count |-> d[p].count,
   TotalCount |-> d[p].totalCount,
   TotalResponseTime |-> d[p].totalResponseTime,
   AverageResponseTime |-> d[p].averageResponseTime]

\* return r: the goroutine goes back to the handler that called Data, or
\* becomes idle, and the caller does what it wants with the value.
Data(p) ==
  /\ pc[p] = "d_build"
  /\ d' = [d EXCEPT ![p] = NoLocals]
  /\ view' = [view EXCEPT ![p] = NoView]
  /\ pc' = [pc EXCEPT ![p] = IF ctx[p].set THEN "h" ELSE "idle"]
  /\ UNCHANGED <<mu, shared, clock, request, background, history, atLock, held>>

\* The map objects of a returned Data that are the recorder's own.
SharedMaps == {"ResponseCounts", "TotalResponseCounts"}

\* The Data value built from the recorder's maps themselves, the copies
\* left unused: StatusCodeCount: mw.ResponseCounts.
KeepShared(r) ==
  [valid |-> TRUE, r |-> r, StatusCodeCount |-> "ResponseCounts",
   TotalStatusCodeCount |-> "TotalResponseCounts"]

\* What the caller holds who keeps the value r that Data returned: the
\* record and, for its two maps, which map objects they are: those that
\* make() created in this call of Data (lines 109, 110, 144, 145).
Keep(r) ==
  [valid |-> TRUE, r |-> r, StatusCodeCount |-> "responseCounts",
   TotalStatusCodeCount |-> "totalResponseCounts"]

\* return r, to a caller that keeps the value.
DataKeep(p) ==
  /\ pc[p] = "d_build"
  /\ held' = Keep(Snapshot(p))
  /\ d' = [d EXCEPT ![p] = NoLocals]
  /\ view' = [view EXCEPT ![p] = NoView]
  /\ pc' = [pc EXCEPT ![p] = IF ctx[p].set THEN "h" ELSE "idle"]
  /\ UNCHANGED <<mu, shared, clock, request, background, history, atLock>>

\* The contents of the maps of the value the caller holds.
HeldStatusCodeCount ==
  IF held.StatusCodeCount = "ResponseCounts" THEN ResponseCounts
  ELSE held.r.StatusCodeCount
HeldTotalStatusCodeCount ==
  IF held.TotalStatusCodeCount = "TotalResponseCounts" THEN TotalResponseCounts
  ELSE held.r.TotalStatusCodeCount

\* The value the caller holds, as the caller reads it.
HeldData ==
  [held.r EXCEPT !.StatusCodeCount = HeldStatusCodeCount,
                 !.TotalStatusCodeCount = HeldTotalStatusCodeCount]

\* What the caller writes into a map of the value it holds.
Scribble(m) == Put(m, "200", 0)

\* The caller changes the maps of the value it holds: a write to a map
\* object changes that object, whoever else refers to it.
CallerWrites ==
  /\ held.valid
  /\ HeldStatusCodeCount # Scribble(HeldStatusCodeCount)
  /\ held' = [held EXCEPT
       !.r.StatusCodeCount =
          IF held.StatusCodeCount \in SharedMaps THEN @ ELSE Scribble(@),
       !.r.TotalStatusCodeCount =
          IF held.TotalStatusCodeCount \in SharedMaps THEN @ ELSE Scribble(@)]
  /\ ResponseCounts' =
       IF held.StatusCodeCount = "ResponseCounts"
         THEN Scribble(ResponseCounts) ELSE ResponseCounts
  /\ TotalResponseCounts' =
       IF held.TotalStatusCodeCount = "TotalResponseCounts"
         THEN Scribble(TotalResponseCounts) ELSE TotalResponseCounts
  /\ UNCHANGED <<mu, Uptime, Pid, TotalResponseTime, clock, pc, request, d,
                 background, history, atLock, view>>

\* The map object that line 46 drops lives on in a value that refers to it.
Orphaned(h) ==
  IF h.valid /\ h.StatusCodeCount = "ResponseCounts"
    THEN [h EXCEPT !.StatusCodeCount = "dropped", !.r.StatusCodeCount = ResponseCounts]
    ELSE h

(* ------------- the goroutine of New, ResetResponseCounts (31-47) ------ *)

\* mw.mu.Lock() finds readers inside and waits for them.
ResetLockPending ==
  /\ bgpc = "reset_lock"
  /\ CanAnnounce
  /\ mu' = [mu EXCEPT !.pending = {Background}]
  /\ UNCHANGED <<shared, clock, pc, request, d, background, history, atLock, view, held>>

\* mw.mu.Lock() returns
ResetLock ==
  /\ bgpc = "reset_lock"
  /\ CanLock
  /\ mu.pending \subseteq {Background}
  /\ mu' = [mu EXCEPT !.writers = @ \cup {Background}, !.pending = {}]
  /\ atLock' = [atLock EXCEPT ![Background] = Counters]
  /\ totalAtReset' = RangeSum(TotalResponseCounts)
  /\ bgpc' = "reset_assign"
  /\ UNCHANGED <<shared, clock, pc, request, d, wakeAt, ended, sinceReset, endedTime,
                 resetSeen, view, held>>

\* The reset that resets the wrong map.
ResetTotalResponseCounts ==
  /\ bgpc = "reset_assign"
  /\ TotalResponseCounts' = EmptyMap
  /\ bgpc' = "reset_unlock"
  /\ UNCHANGED <<mu, Uptime, Pid, ResponseCounts, TotalResponseTime, clock, pc,
                 request, d, wakeAt, history, atLock, view, held>>

\* The reset that forgets its assignment.
ResetNothing ==
  /\ bgpc = "reset_assign"
  /\ bgpc' = "reset_unlock"
  /\ UNCHANGED <<mu, shared, clock, pc, request, d, wakeAt, history, atLock, view, held>>

\* The reset that clears the totals as well.
ResetAllCounts ==
  /\ bgpc = "reset_assign"
  /\ ResponseCounts' = EmptyMap
  /\ TotalResponseCounts' = EmptyMap
  /\ bgpc' = "reset_unlock"
  /\ UNCHANGED <<mu, Uptime, Pid, TotalResponseTime, clock, pc, request, d, wakeAt,
                 history, atLock, view, held>>

\* mw.ResponseCounts = map[string]int{}
ResetResponseCounts ==
  /\ bgpc = "reset_assign"
  /\ ResponseCounts' = EmptyMap
  /\ held' = Orphaned(held)
  /\ bgpc' = "reset_unlock"
  /\ UNCHANGED <<mu, Uptime, Pid, TotalResponseCounts, TotalResponseTime, clock, pc,
                 request, d, wakeAt, history, atLock, view>>

\* time.Sleep returns no earlier than a second after it was called; the
\* model's clock stops at ClockCap, and so does the deadline.
SleepUntil == IF clock + SleepInterval > ClockCap THEN ClockCap ELSE clock + SleepInterval

\* The deferred mw.mu.Unlock(), the return, and the call of time.Sleep.
ResetUnlock ==
  /\ bgpc = "reset_unlock"
  /\ mu' = [mu EXCEPT !.writers = @ \ {Background}]
  /\ sinceReset' = ZeroCount
  /\ resetSeen' = TRUE
  /\ atLock' = [atLock EXCEPT ![Background] = NoCounters]
  /\ wakeAt' = SleepUntil
  /\ bgpc' = "sleep"
  /\ UNCHANGED <<shared, clock, pc, request, d, ended, endedTime, totalAtReset, view, held>>

\* time.Sleep returns and the goroutine ends: the `for` left out.
WakeAndReturn ==
  /\ bgpc = "sleep"
  /\ clock >= wakeAt
  /\ bgpc' = "returned"
  /\ UNCHANGED <<mu, shared, clock, pc, request, d, wakeAt, history, atLock, view, held>>

\* time.Sleep returns and the loop starts over.
Wake ==
  /\ bgpc = "sleep"
  /\ clock >= wakeAt
  /\ bgpc' = "reset_lock"
  /\ UNCHANGED <<mu, shared, clock, pc, request, d, wakeAt, history, atLock, view, held>>

\* Time passes.
Tick ==
  /\ clock < ClockCap
  /\ clock' = clock + 1
  /\ UNCHANGED <<mu, shared, pc, request, d, background, history, atLock, view, held>>

\* What goroutine p does next; it starts a request while fewer than `limit`
\* have been started.
Goroutine(p, limit) ==
  \/ Requests < limit /\ Begin(p)
  \/ DownstreamHandler(p)
  \/ End(p)
  \/ Requests < limit /\ EndWithStatus(p)
  \/ Lock(p)
  \/ ReadResponseCounts(p)
  \/ WriteResponseCounts(p)
  \/ ReadTotalResponseCounts(p)
  \/ WriteTotalResponseCounts(p)
  \/ ReadTotalResponseTime(p)
  \/ WriteTotalResponseTime(p)
  \/ Unlock(p)
  \/ RLock(p)
  \/ Copy(p)
  \/ RUnlock(p)
  \/ Data(p)

\* What goroutine p does next when there are other request goroutines: its
\* Lock may find one of them reading.
Concurrent(p, limit) ==
  \/ Goroutine(p, limit)
  \/ LockPending(p)

\* The goroutine started by New, and the clock.
Environment ==
  \/ ResetLockPending
  \/ ResetLock
  \/ ResetResponseCounts
  \/ ResetUnlock
  \/ Wake
  \/ Tick

\* Any number of request goroutines at once.
Next == (\E p \in Workers : Concurrent(p, MaxRequests)) \/ Environment

Spec == Init /\ [][Next]_vars

\* The steps of goroutine p inside a call of End, EndWithStatus or Data, and
\* the call of End by Handler when the downstream handler has returned.
Progress(p) ==
  \/ End(p)
  \/ LockPending(p)
  \/ Lock(p)
  \/ ReadResponseCounts(p)
  \/ WriteResponseCounts(p)
  \/ ReadTotalResponseCounts(p)
  \/ WriteTotalResponseCounts(p)
  \/ ReadTotalResponseTime(p)
  \/ WriteTotalResponseTime(p)
  \/ Unlock(p)
  \/ pc[p] = "d_rlock" /\ RLock(p)
  \/ Copy(p)
  \/ RUnlock(p)
  \/ Data(p)

\* The steps of the goroutine started by New.
Loop ==
  \/ ResetLockPending
  \/ ResetLock
  \/ ResetResponseCounts
  \/ ResetUnlock
  \/ Wake

\* The Go scheduler runs every runnable goroutine; sync.Mutex and
\* sync.RWMutex hand the lock to a goroutine that keeps waiting for it
\* (starvation mode, and readers queue behind a waiting writer), so a
\* goroutine whose step is possible again and again takes it; time passes.
Fairness ==
  /\ \A p \in Workers : SF_vars(Progress(p))
  /\ SF_vars(Loop)
  /\ WF_vars(Tick)

\* Request goroutines that may find the lock taken when they call Data.
NextLive ==
  \/ \E p \in Workers : Concurrent(p, LiveRequests) \/ DataCall(p)
  \/ Environment

SpecLive == Init /\ [][NextLive]_vars /\ Fairness

\* Request goroutines whose callers keep the value Data returns, and write
\* to its maps.
NextKeep ==
  \/ \E p \in Workers : Concurrent(p, KeepRequests) \/ DataKeep(p)
  \/ CallerWrites
  \/ Environment

SpecKeep == Init /\ [][NextKeep]_vars

\* One goroutine making its calls one after the other, as a test does,
\* beside the goroutine started by New.
NextSeq == Goroutine(1, SeqRequests) \/ Environment

SpecSeq == Init /\ [][NextSeq]_vars

(* ------------------------------ properties ---------------------------- *)

\* The key a status is expected under: its decimal numeral.
ExpectedKey(s) == CASE s = 200 -> "200" [] s = 404 -> "404" [] s = 500 -> "500"

\* The map expected of a count per status: a key for each status counted at
\* least once, and no other.
ExpectedMap(cnt) ==
  [k \in {ExpectedKey(s) : s \in {x \in Statuses : cnt[x] > 0}} |->
     cnt[CHOOSE s \in Statuses : ExpectedKey(s) = k]]

Count(cnt) == SumOver(cnt, Statuses)

\* Data is about to return Snapshot(p).
Returning(p) == pc[p] = "d_build"

\* C1: a Snapshot reports exactly the requests that had ended when Data
\* took its read lock: total_count is their number N, and
\* total_status_code_count holds, for each code, the number of them with
\* that code, and no key for a code none of them had; resets and other
\* Snapshots in between change nothing of it.
C1_TotalsCountEndedRequests ==
  \A p \in Workers :
    Returning(p) =>
      /\ Snapshot(p).TotalCount = Count(view[p].ended)
      /\ Snapshot(p).TotalStatusCodeCount = ExpectedMap(view[p].ended)

\* Three requests of two codes have ended, a reset came after the first, and
\* a Snapshot reports them.
C1_Witness ==
  \E p \in Workers :
    /\ Returning(p)
    /\ view[p].ended = [s \in Statuses |-> IF s = 200 THEN 2 ELSE IF s = 404 THEN 1 ELSE 0]
    /\ view[p].resetSeen
    /\ Count(view[p].sinceReset) < 3
    /\ Snapshot(p).TotalCount = 3

\* Positions of End past its increment of the total count.
PastTotalWrite == {"ews_trt_r", "ews_trt_w", "ews_unlock"}

\* C2: no increment of concurrently completing requests is lost: in every
\* state the total count under "200" is the number of requests with status
\* 200 that have ended plus those whose End has made its increment and
\* not yet returned; so when M goroutines have each ended one such request
\* it is M, in whatever order they took the lock.
C2_NoLostUpdate ==
  Get(TotalResponseCounts, "200") =
    ended[StatusOK] +
      Cardinality({p \in Workers : pc[p] \in PastTotalWrite /\ status[p] = StatusOK})

\* Every goroutine is ending a request with status 200 at once: one has made
\* its increments and holds the lock, the others wait for it.
C2_Witness ==
  /\ \E p \in Workers :
       /\ pc[p] = "ews_unlock"
       /\ \A q \in Workers \ {p} : pc[q] = "ews_lock"
  /\ \A p \in Workers : status[p] = StatusOK
  /\ Get(TotalResponseCounts, "200") = 1

\* For every code in a map of interval counts, the total is no less.
TotalCoversInterval(interval, total) ==
  \A c \in DOMAIN interval : Get(total, c) >= interval[c]

\* C3, as stated: in every reachable state, and in every Snapshot, the total
\* count of every code present in the interval counts is at least its
\* interval count.
C3_AsStated ==
  /\ TotalCoversInterval(ResponseCounts, TotalResponseCounts)
  /\ \A p \in Workers :
       Returning(p) =>
         TotalCoversInterval(Snapshot(p).StatusCodeCount, Snapshot(p).TotalStatusCodeCount)

\* Positions of End between its two increments.
BetweenIncrements == {"ews_trc_r", "ews_trc_w"}

\* C3, amended: the same in every state in which no End is between its
\* increment of the interval count and its increment of the total count
\* (so whenever the lock is not held for writing), and in every Snapshot.
C3_TotalCoversInterval ==
  /\ (\A p \in Workers : pc[p] \notin BetweenIncrements) =>
       TotalCoversInterval(ResponseCounts, TotalResponseCounts)
  /\ mu.writers = {} => \A p \in Workers : pc[p] \notin BetweenIncrements
  /\ \A p \in Workers :
       Returning(p) =>
         TotalCoversInterval(Snapshot(p).StatusCodeCount, Snapshot(p).TotalStatusCodeCount)

\* After a reset and one more request the total of a code exceeds its
\* interval count, with the lock free.
C3_Witness ==
  /\ mu.writers = {}
  /\ resetSeen
  /\ "200" \in DOMAIN ResponseCounts
  /\ TotalResponseCounts["200"] > ResponseCounts["200"]

\* C4: a Snapshot taken after a reset has returned and before any request
\* ends reports count 0 and an empty status_code_count, and as total_count
\* the sum of the total counts from before the reset.
C4_EmptyAfterReset ==
  \A p \in Workers :
    (Returning(p) /\ view[p].resetSeen /\ Count(view[p].sinceReset) = 0) =>
      /\ Snapshot(p).Count = 0
      /\ Snapshot(p).StatusCodeCount = EmptyMap
      /\ Snapshot(p).TotalCount = view[p].totalAtReset

\* Such a Snapshot, of a recorder whose reset emptied counts of two requests.
C4_Witness ==
  \E p \in Workers :
    /\ Returning(p)
    /\ view[p].resetSeen
    /\ Count(view[p].sinceReset) = 0
    /\ Snapshot(p).TotalCount = 2

\* An increment of one key of a map.
IsIncrement(m, n) == \E k \in {ExpectedKey(s) : s \in Statuses} : n = Put(m, k, Get(m, k) + 1)

\* C5: a step of ResetResponseCounts leaves TotalResponseCounts,
\* TotalResponseTime, Uptime and Pid as they were and changes
\* ResponseCounts, if at all, to the empty map; ResponseCounts changes
\* only by that assignment or by the increment of one key in End; Uptime
\* and Pid never change.
C5_ResetFrame ==
  [][/\ bgpc' # bgpc =>
          /\ UNCHANGED <<TotalResponseCounts, TotalResponseTime, Uptime, Pid>>
          /\ ResponseCounts' # ResponseCounts =>
                bgpc = "reset_assign" /\ ResponseCounts' = EmptyMap
     /\ (ResponseCounts' # ResponseCounts /\ bgpc' = bgpc) =>
          /\ \E p \in Workers : pc[p] = "ews_rc_w" /\ pc'[p] = "ews_trc_r"
          /\ IsIncrement(ResponseCounts, ResponseCounts')
     /\ UNCHANGED <<Uptime, Pid>>]_vars

\* A reset has emptied interval counts of a recorder with total counts and
\* a total response time.
C5_Witness ==
  /\ bgpc = "reset_unlock"
  /\ atLock[Background].rc # EmptyMap
  /\ ResponseCounts = EmptyMap
  /\ TotalResponseCounts = atLock[Background].trc
  /\ TotalResponseCounts # EmptyMap
  /\ TotalResponseTime > 0

\* C6, as stated: in every state, for every status, the interval count is
\* the number of End calls with that status that returned after the most
\* recent reset returned, and the total count the number of all that
\* returned.
C6_AsStated ==
  \A s \in Statuses :
    /\ Get(ResponseCounts, ExpectedKey(s)) = sinceReset[s]
    /\ Get(TotalResponseCounts, ExpectedKey(s)) = ended[s]

\* C6, amended: the same in every state in which neither an End nor a
\* reset holds the lock, and so in every Snapshot: status_code_count holds
\* the requests that ended after the most recent reset, whenever they
\* began, total_status_code_count all that ended, total_count their number.
C6_IntervalAttribution ==
  /\ mu.writers = {} =>
       /\ ResponseCounts = ExpectedMap(sinceReset)
       /\ TotalResponseCounts = ExpectedMap(ended)
  /\ \A p \in Workers :
       Returning(p) =>
         /\ Snapshot(p).StatusCodeCount = ExpectedMap(view[p].sinceReset)
         /\ Snapshot(p).TotalStatusCodeCount = ExpectedMap(view[p].ended)
         /\ Snapshot(p).TotalCount = Count(view[p].ended)

\* Requests 200, 200, 404 ended, then a reset, then a request 500, and the
\* Snapshot of it.
C6_Witness ==
  \E p \in Workers :
    /\ Returning(p)
    /\ view[p].ended = [s \in Statuses |-> IF s = 200 THEN 2 ELSE 1]
    /\ view[p].sinceReset = [s \in Statuses |-> IF s = 500 THEN 1 ELSE 0]
    /\ Snapshot(p).StatusCodeCount = ("500" :> 1)
    /\ Snapshot(p).TotalStatusCodeCount = ("200" :> 2 @@ "404" :> 1 @@ "500" :> 1)
    /\ Snapshot(p).TotalCount = 4

\* Requests with statuses 200, 200 and 404 have ended, and no other.
ThreeRequests(h) == h.ended = [s \in Statuses |-> IF s = 200 THEN 2 ELSE IF s = 404 THEN 1 ELSE 0]

\* C7, as stated: after New and three requests 200, 200, 404 a Snapshot
\* reports count 3, status_code_count {"200":2,"404":1} and total_count 3.
C7_AsStated ==
  \A p \in Workers :
    (Returning(p) /\ ThreeRequests(view[p])) =>
      /\ Snapshot(p).Count = 3
      /\ Snapshot(p).StatusCodeCount = ("200" :> 2 @@ "404" :> 1)
      /\ Snapshot(p).TotalCount = 3

\* C7, amended: such a Snapshot reports total_count 3 and
\* total_status_code_count {"200":2,"404":1}; its status_code_count holds
\* the requests that ended after the latest reset of the goroutine of New,
\* so count is 3 and status_code_count {"200":2,"404":1} when no reset
\* returned after the first request ended, and count is less otherwise.
C7_ThreeRequests ==
  \A p \in Workers :
    (Returning(p) /\ ThreeRequests(view[p])) =>
      /\ Snapshot(p).TotalCount = 3
      /\ Snapshot(p).TotalStatusCodeCount = ("200" :> 2 @@ "404" :> 1)
      /\ Snapshot(p).StatusCodeCount = ExpectedMap(view[p].sinceReset)
      /\ Snapshot(p).Count = Count(view[p].sinceReset)
      /\ IF view[p].sinceReset = view[p].ended
           THEN /\ Snapshot(p).Count = 3
                /\ Snapshot(p).StatusCodeCount = ("200" :> 2 @@ "404" :> 1)
           ELSE Snapshot(p).Count < 3

\* The three requests ended after the first reset and before the next, and
\* the Snapshot counts all three.
C7_Witness ==
  \E p \in Workers :
    /\ Returning(p)
    /\ ThreeRequests(view[p])
    /\ view[p].resetSeen
    /\ view[p].sinceReset = view[p].ended
    /\ Snapshot(p).Count = 3

\* C8: a critical section takes effect as a whole on the state it found
\* when it took the lock.  An End that is about to unlock has added one to
\* the interval count and to the total count of its code and its response
\* time to the total, each exactly once, whether the reset took the lock
\* before it (the interval count of the code is then 1) or takes it after;
\* a reset that is about to unlock has emptied the interval counts and
\* left the totals with every request they had.
C8_SerialEffect ==
  /\ \A p \in Workers :
       pc[p] = "ews_unlock" =>
         LET k == ExpectedKey(status[p])
             before == atLock[p]
         IN  /\ ResponseCounts = Put(before.rc, k, Get(before.rc, k) + 1)
             /\ TotalResponseCounts = Put(before.trc, k, Get(before.trc, k) + 1)
             /\ TotalResponseTime = before.trt + responseTime[p]
             /\ resetSeen /\ Count(sinceReset) = 0 => ResponseCounts = (k :> 1)
  /\ bgpc = "reset_unlock" =>
       /\ ResponseCounts = EmptyMap
       /\ TotalResponseCounts = atLock[Background].trc
       /\ TotalResponseTime = atLock[Background].trt
  /\ mu.writers = {} =>
       /\ TotalResponseCounts = ExpectedMap(ended)
       /\ TotalResponseTime = endedTime

\* An End and a reset at once: the reset has emptied counts and holds the
\* lock, the End has taken its end time and waits for the lock.
C8_Witness ==
  /\ bgpc = "reset_unlock"
  /\ atLock[Background].rc # EmptyMap
  /\ \E p \in Workers : pc[p] = "ews_lock"

\* C9: the counters are accessed under the lock in the right mode.  A
\* goroutine at a statement of End or of the reset that reads or writes a
\* counter is the one writer, with no reader beside it; a goroutine in the
\* loops of Data is a reader; nobody else holds the lock; readers exclude
\* the writer and not each other.  Data reads Pid after RUnlock.
C9_LockDiscipline ==
  /\ Cardinality(mu.writers) <= 1
  /\ mu.writers # {} => mu.readers = {}
  /\ \A p \in Workers :
       /\ p \in mu.writers <=> pc[p] \in EwsCritical
       /\ p \in mu.readers <=> pc[p] \in DataCritical
  /\ Background \in mu.writers <=> bgpc \in {"reset_assign", "reset_unlock"}
  /\ \A p \in Workers : Returning(p) => p \notin mu.readers /\ Snapshot(p).Pid = Pid

\* Every goroutine is inside Data's critical section at once.
C9_Witness ==
  /\ mu.readers = Workers
  /\ Cardinality(mu.readers) > 1
  /\ \A p \in Workers : pc[p] = "d_copy"
  /\ bgpc = "reset_lock"
  /\ TotalResponseCounts # EmptyMap

\* q is the quotient of n by m truncated toward zero.
IsTruncatedQuotient(q, n, m) ==
  /\ n >= 0 => q * m <= n /\ n < (q + 1) * m
  /\ n < 0 => q * m >= n /\ n > (q - 1) * m

\* C10: in every Snapshot the average response time is the total response
\* time it reports divided by its total count, truncated toward zero, when
\* the total count is positive, and zero when the total count is zero; the
\* Snapshot of a recorder on which no request has ended has count 0,
\* total_count 0 and average 0.
C10_Average ==
  \A p \in Workers :
    Returning(p) =>
      LET r == Snapshot(p)
      IN  /\ r.TotalCount > 0 =>
                IsTruncatedQuotient(r.AverageResponseTime, r.TotalResponseTime, r.TotalCount)
          /\ r.TotalCount = 0 => r.AverageResponseTime = 0
          /\ r.TotalCount >= 0
          /\ Count(view[p].ended) = 0 =>
                r.Count = 0 /\ r.TotalCount = 0 /\ r.AverageResponseTime = 0

\* A Snapshot whose total response time is not a multiple of its total
\* count.
C10_Witness ==
  \E p \in Workers :
    /\ Returning(p)
    /\ Snapshot(p).TotalCount = 2
    /\ Snapshot(p).TotalResponseTime = 1
    /\ Snapshot(p).AverageResponseTime = 0

\* C11: the goroutine started by New runs forever.  Under fair scheduling
\* the assignment of ResetResponseCounts happens again and again; whenever
\* the interval counts are not empty they are empty later; and whenever the
\* goroutine is about to take the lock it gets it, whatever requests end
\* and whatever Snapshots are taken meanwhile.
C11_ResetForever ==
  /\ []<><<ResetResponseCounts>>_vars
  /\ (ResponseCounts # EmptyMap) ~> (ResponseCounts = EmptyMap)
  /\ (bgpc = "reset_lock") ~> (Background \in mu.writers)

\* The goroutine waits for the lock behind a Snapshot in progress while a
\* request is ending and the interval counts are not empty.
C11_Witness ==
  /\ mu.pending = {Background}
  /\ ResponseCounts # EmptyMap
  /\ \E p \in Workers : pc[p] = "ews_lock"
  /\ resetSeen

\* The counters after a request with status s and response time t is
\* counted in the counters `before`.
Counted(before, s, t) ==
  [valid |-> TRUE,
   rc |-> Put(before.rc, ExpectedKey(s), Get(before.rc, ExpectedKey(s)) + 1),
   trc |-> Put(before.trc, ExpectedKey(s), Get(before.trc, ExpectedKey(s)) + 1),
   trt |-> before.trt + t]

\* The status of the request goroutine p is ending: that of its RequestCtx
\* when Handler called End, the argument of a direct call of EndWithStatus.
RequestStatus(p) == IF ctx[p].set THEN ctx[p].status ELSE status[p]

\* C12: End(start, ctx) has the effect of EndWithStatus(start, s) with s the
\* status of ctx.  End passes that status on, and a call about to return
\* has changed the three counters it found by what its status and its
\* response time determine, whichever of the two the caller called.
C12_SameEffect ==
  \A p \in Workers :
    /\ (pc[p] \in EwsPcs /\ ctx[p].set) => status[p] = ctx[p].status
    /\ pc[p] = "ews_unlock" =>
         Counters = Counted(atLock[p], RequestStatus(p), responseTime[p])

\* An End and an EndWithStatus with the same status and the same response
\* time, the first about to return and the second waiting for the lock.
C12_Witness ==
  \E p, q \in Workers :
    /\ pc[p] = "ews_unlock" /\ ctx[p].set /\ ctx[p].status = 500
    /\ pc[q] = "ews_lock" /\ ~ ctx[q].set /\ status[q] = 500
    /\ responseTime[p] = responseTime[q]
    /\ Get(atLock[p].trc, "500") = 1

\* Positions of Data.
DataPcs == {"d_rlock", "d_copy", "d_runlock", "d_build"}

\* C13: a request served through Handler has status 200 from Begin until
\* its downstream handler returns, Snapshots taken by the handler
\* included, so it ends with 200 when the handler set none; End counts it
\* under the decimal numeral of the status its RequestCtx has then, in the
\* interval counts and in the totals, and leaves the counts of "200" alone
\* when that status is not 200.
C13_DefaultStatus ==
  \A p \in Workers :
    /\ (ctx[p].set /\ pc[p] \in {"h"} \cup DataPcs) => ctx[p].status = StatusOK
    /\ (ctx[p].set /\ pc[p] \in EwsCritical) => statusCode[p] = ExpectedKey(ctx[p].status)
    /\ (ctx[p].set /\ pc[p] = "ews_unlock") =>
         LET k == ExpectedKey(ctx[p].status)
         IN  /\ ResponseCounts[k] = Get(atLock[p].rc, k) + 1
             /\ TotalResponseCounts[k] = Get(atLock[p].trc, k) + 1
             /\ ctx[p].status # StatusOK =>
                  /\ Get(ResponseCounts, "200") = Get(atLock[p].rc, "200")
                  /\ Get(TotalResponseCounts, "200") = Get(atLock[p].trc, "200")

\* A request whose handler set 404 is counted while another is being
\* served with the status Begin gave it, after one counted under "200".
C13_Witness ==
  \E p, q \in Workers :
    /\ pc[p] = "ews_unlock" /\ ctx[p].set /\ ctx[p].status = 404
    /\ ResponseCounts = ("200" :> 1 @@ "404" :> 1)
    /\ pc[q] = "end" /\ ctx[q].status = StatusOK

\* A step of the recorder: of an End, EndWithStatus or Data call other than
\* the return of Data, or of the goroutine started by New.
RecorderStep ==
  \/ bgpc' # bgpc
  \/ \E p \in Workers : pc'[p] # pc[p] /\ pc[p] # "d_build"

\* C14: the maps of a Data value are not the recorder's.  No step of End,
\* of EndWithStatus, of the reset or of another Data call changes any
\* field of a value a caller holds, as the caller reads it; and a step
\* that is not the recorder's, such as the caller's write to the maps of
\* that value, changes neither ResponseCounts nor TotalResponseCounts.
C14_Copies ==
  [][/\ (held.valid /\ RecorderStep) => (held'.valid /\ HeldData' = HeldData)
     /\ ~ RecorderStep => UNCHANGED <<ResponseCounts, TotalResponseCounts>>]_vars

\* A caller holds a Data value of one request and has written to its maps;
\* since Data returned another request has ended and a reset has emptied
\* the interval counts.
C14_Witness ==
  /\ held.valid
  /\ held.r.TotalCount = 1
  /\ held.r.TotalStatusCodeCount = ("200" :> 0)
  /\ held.r.StatusCodeCount = ("200" :> 0)
  /\ TotalResponseCounts = ("200" :> 2)
  /\ ResponseCounts = EmptyMap
  /\ \A p \in Workers : pc[p] = "idle"

\* Goroutine p takes the step of line 79 that writes TotalResponseTime.
AddsResponseTime(p) == pc[p] = "ews_trt_w" /\ pc'[p] = "ews_unlock"

\* C15, as stated: no step makes TotalResponseTime smaller, whatever start
\* the caller of EndWithStatus passed, and only line 79 changes it.
C15_AsStated ==
  [][/\ TotalResponseTime' >= TotalResponseTime
     /\ TotalResponseTime' # TotalResponseTime => \E p \in Workers : AddsResponseTime(p)]_vars

\* C15, amended: only line 79 changes TotalResponseTime, by the response
\* time of the call, which is now minus start cut to the range of a
\* Duration.  It is not negative when start is not later than the time of
\* the call, as it is in every End that Handler makes after Begin, and the
\* total is then not smaller after the call than before; it is negative
\* when start is later than the time of the call, and the total is then
\* smaller after the call.
C15_GrowsUnlessStartIsLater ==
  [][/\ TotalResponseTime' # TotalResponseTime =>
          \E p \in Workers :
            AddsResponseTime(p) /\ TotalResponseTime' = TotalResponseTime + responseTime[p]
     /\ \A p \in Workers :
          /\ (pc[p] \in {"idle", "end"} /\ pc'[p] = "ews_lock") =>
               /\ responseTime'[p] = Sub(clock, start'[p])
               /\ start'[p] <= clock => responseTime'[p] >= 0
               /\ start'[p] > clock => responseTime'[p] < 0
          /\ pc[p] = "end" => start[p] <= clock
          /\ (ctx[p].set /\ pc[p] \in EwsPcs) => responseTime[p] >= 0
          /\ (AddsResponseTime(p) /\ responseTime[p] >= 0) =>
               TotalResponseTime' >= TotalResponseTime
          /\ (AddsResponseTime(p) /\ responseTime[p] < 0) =>
               TotalResponseTime' < TotalResponseTime]_vars

\* A call with the zero Time for start is about to return: it has added the
\* longest Duration to a total that other requests had made positive.
C15_Witness ==
  \E p \in Workers :
    /\ pc[p] = "ews_unlock"
    /\ ~ ctx[p].set
    /\ responseTime[p] = MaxDuration
    /\ atLock[p].trt > 0
    /\ TotalResponseTime = atLock[p].trt + MaxDuration

\* The numerals of the status codes, and the sum of the values a map has
\* under them.
Numerals == {"200", "404", "500"}
SumOfValues(m) == Get(m, "200") + Get(m, "404") + Get(m, "500")

\* C16: in every Snapshot count is the sum of the values of its
\* status_code_count and total_count the sum of the values of its
\* total_status_code_count, whatever End and the reset were doing while
\* Data ran; and count is at most total_count.
C16_CountsAreSums ==
  \A p \in Workers :
    Returning(p) =>
      LET r == Snapshot(p)
      IN  /\ DOMAIN r.StatusCodeCount \subseteq Numerals
          /\ DOMAIN r.TotalStatusCodeCount \subseteq Numerals
          /\ r.Count = SumOfValues(r.StatusCodeCount)
          /\ r.TotalCount = SumOfValues(r.TotalStatusCodeCount)
          /\ r.Count <= r.TotalCount

\* A Snapshot of two requests of different codes, about to be returned
\* while a third request is between its two increments and the reset is
\* waiting for the lock.
C16_Witness ==
  \E p, q \in Workers :
    /\ Returning(p)
    /\ Snapshot(p).StatusCodeCount = ("200" :> 1 @@ "404" :> 1)
    /\ Snapshot(p).Count = 2
    /\ Snapshot(p).TotalCount = 2
    /\ pc[q] = "ews_trc_r"
    /\ bgpc = "reset_lock"

\* A Snapshot whose maps are those of the history h.
ViewOf(r, h) ==
  /\ r.StatusCodeCount = ExpectedMap(h.sinceReset)
  /\ r.TotalStatusCodeCount = ExpectedMap(h.ended)
  /\ r.Count = Count(h.sinceReset)
  /\ r.TotalCount = Count(h.ended)

\* C17, as stated: a Snapshot reports the recorder as it was when Data took
\* the read lock, with every call that had returned applied in full and no
\* other in part, and its total response time is the sum of the response
\* times of the calls its total_count counts.
C17_AsStated ==
  \A p \in Workers :
    Returning(p) =>
      /\ ViewOf(Snapshot(p), view[p])
      /\ Snapshot(p).TotalResponseTime = view[p].endedTime

\* A sum of Durations as a Duration holds it.
InDurationRange(x) == MinDuration <= x /\ x <= MaxDuration
Clamped(x) == IF x > MaxDuration THEN MaxDuration ELSE IF x < MinDuration THEN MinDuration ELSE x

\* C17, amended: the same, with the total response time the sum of those
\* response times when the sum is in the range of a Duration, and the end
\* of the range nearest to it otherwise.
C17_AtomicView ==
  \A p \in Workers :
    Returning(p) =>
      /\ ViewOf(Snapshot(p), view[p])
      /\ Snapshot(p).TotalResponseTime = Clamped(view[p].endedTime)
      /\ InDurationRange(view[p].endedTime) =>
           Snapshot(p).TotalResponseTime = view[p].endedTime

\* A Snapshot of two requests that took one tick together, about to be
\* returned while a third request has made both its increments and has
\* not yet added its response time.
C17_Witness ==
  \E p, q \in Workers :
    /\ Returning(p)
    /\ Snapshot(p).TotalCount = 2
    /\ Snapshot(p).TotalResponseTime = 1
    /\ view[p].endedTime = 1
    /\ pc[q] = "ews_trt_r"
    /\ RangeSum(TotalResponseCounts) = 3

\* Positions of End past its increment of the interval count.
PastIntervalWrite == {"ews_trc_r", "ews_trc_w"} \cup PastTotalWrite

\* The requests the counters hold: those that have ended, and those whose
\* End has made the increment and not yet returned.
OnlyEndedCounted ==
  /\ SumOfValues(TotalResponseCounts) =
       Ended + Cardinality({p \in Workers : pc[p] \in PastTotalWrite})
  /\ bgpc # "reset_unlock" =>
       SumOfValues(ResponseCounts) =
         Count(sinceReset) + Cardinality({p \in Workers : pc[p] \in PastIntervalWrite})
  /\ \A p \in Workers :
       (Returning(p) /\ ctx[p].set) =>
         /\ Snapshot(p).TotalCount = Count(view[p].ended)
         /\ Snapshot(p).TotalCount <= Ended
         /\ Snapshot(p).TotalCount + Cardinality(InFlight) <= Requests

\* The order of Handler: Begin, then the downstream handler with the
\* Snapshots it takes, then End; and the one step of it that counts.
HandlerOrder(p) ==
  /\ (pc'[p] = "h" /\ pc[p] # "h") => pc[p] \in {"idle", "d_build"}
  /\ (pc'[p] = "end" /\ pc[p] # "end") => pc[p] = "h"
  /\ (pc'[p] = "ews_lock" /\ pc[p] # "ews_lock" /\ ctx[p].set) => pc[p] = "end"
  /\ (pc[p] = "idle" /\ pc'[p] = "h") => ctx'[p].set /\ ~ ctx[p].set
  /\ (ctx[p].set /\ ~ ctx'[p].set) => pc[p] = "ews_unlock" /\ pc'[p] = "idle"
  /\ (pc'[p] # pc[p] /\ TotalResponseCounts' # TotalResponseCounts) =>
       /\ pc[p] = "ews_trc_w"
       /\ IsIncrement(TotalResponseCounts, TotalResponseCounts')
  /\ (pc'[p] # pc[p] /\ ResponseCounts' # ResponseCounts) =>
       /\ pc[p] = "ews_rc_w"
       /\ IsIncrement(ResponseCounts, ResponseCounts')

\* C18: Handler runs Begin, then the downstream handler, then End, and a
\* request is counted once, by the End that follows its handler: a request
\* that has begun and not ended is in no counter, and a Snapshot taken
\* inside the downstream handler counts the requests that had ended and
\* not the one being served.
C18_CountedAtEnd ==
  /\ OnlyEndedCounted
  /\ [][OnlyEndedCounted' /\ \A p \in Workers : HandlerOrder(p)]_vars

\* A downstream handler is about to get the Snapshot it asked for: one
\* request has ended, its own and another are being served, and the
\* Snapshot counts one.
C18_Witness ==
  \E p, q \in Workers :
    /\ p # q
    /\ Returning(p) /\ ctx[p].set
    /\ pc[q] = "end" /\ ctx[q].set
    /\ Ended = 1
    /\ Snapshot(p).TotalCount = 1
    /\ Snapshot(p).Count = 1

\* The goroutines that hold the lock or have announced themselves for it.
Lockers == mu.writers \cup mu.readers \cup mu.pending

\* No call of End, EndWithStatus, Data or ResetResponseCounts is in progress.
Quiescent ==
  /\ \A p \in Workers : pc[p] \in {"idle", "h", "end"}
  /\ bgpc = "sleep"

\* C19: the lock is never left taken and nobody waits for ever.  A
\* goroutine outside End, EndWithStatus and Data, and the goroutine of New
\* outside ResetResponseCounts, holds the lock in no mode, so the lock is
\* free when no call is in progress; and under fair scheduling every call
\* of End, EndWithStatus and Data that has started returns, and so does
\* every call of ResetResponseCounts.
C19_NoLeakNoDeadlock ==
  /\ [](/\ \A p \in Workers : pc[p] \in {"idle", "h", "end"} => p \notin Lockers
        /\ bgpc = "sleep" => Background \notin Lockers
        /\ Quiescent => Lockers = {})
  /\ \A p \in Workers : (pc[p] \in EwsPcs \cup DataPcs) ~> (pc[p] \in {"idle", "h"})
  /\ (bgpc # "sleep") ~> (bgpc = "sleep")

\* Every goroutine waits for the lock at once: a Snapshot is being copied,
\* the reset has announced itself behind it, and another request goroutine
\* waits to end its request.
C19_Witness ==
  \E p, q \in Workers :
    /\ pc[p] = "d_copy"
    /\ pc[q] = "ews_lock"
    /\ mu.pending = {Background}
    /\ TotalResponseCounts # EmptyMap

====
